---------------------------- MODULE Spec2Model ----------------------------
(***************************************************************************)
(* State-machine model of habitat_baselines/common/base_trainer.py:        *)
(*   - BaseRLTrainer._pause_envs, the vectorized environment pauser;       *)
(*   - BaseRLTrainer.__init__, percent_done, is_done, should_checkpoint,   *)
(*     the progress tracker and the checkpoint scheduler;                  *)
(*   - BaseTrainer._setup_eval_config and BaseTrainer.eval, the eval       *)
(*     configuration merge and the checkpoint evaluation loop;             *)
(* and of habitat/config/read_write.py, the read_write context manager.    *)
(* Python lists and tensors are sequences; positions are 0-based in the    *)
(* code and 1-based in the sequences, so position p is element p + 1.      *)
(***************************************************************************)
EXTENDS Integers, Sequences, FiniteSets, TLC

VARIABLES
    \* ---- _pause_envs: the caller's batch (an eval loop owns these) ----
    envs,                          \* live environment handles, by position
    paused,                        \* handles pause_at has removed, in call order
    test_recurrent_hidden_states,  \* one entry per live environment
    not_done_masks,
    current_episode_reward,
    prev_actions,
    batch,                         \* observation dict: sensor name -> array
    rgb_frames,                    \* one frame list per live environment
    envs_to_pause,                 \* argument of the latest _pause_envs call
    pause_status,                  \* "idle" | "returned" | "raised"
    \* ---- BaseRLTrainer ----
    config,                        \* NUM_UPDATES, TOTAL_NUM_STEPS, NUM_CHECKPOINTS, CHECKPOINT_INTERVAL
    trainer_status,                \* "new" | "ready" | "error" (__init__ raised)
    error,                         \* which RuntimeError __init__ raised, or "none"
    num_updates_done,
    num_steps_done,
    _last_checkpoint_percent,      \* a Python float
    op,                            \* the latest trainer operation
    ret,                           \* what it returned
    \* ---- a training run: the loop around update and should_checkpoint ----
    run_pc,                        \* where the loop is
    true_returns,                  \* should_checkpoint calls of the run that returned True
    \* ---- BaseTrainer._setup_eval_config ----
    self_config,                   \* the trainer's config, the eval config
    checkpoint_config,             \* the config saved in the checkpoint
    eval_config,                   \* the config returned
    setup_pc,                      \* "call", then "merged" or "outdated"
    \* ---- read_write: OmegaConf containers and the open scopes ----
    rw_flags,                      \* container -> its own readonly and struct flags
    rw_data,                       \* container -> its content
    rw_stack,                      \* the open read_write scopes, innermost last
    rw_pending,                    \* an exception is propagating
    rw_op,                         \* the latest step
    \* ---- BaseTrainer.eval: the evaluation poller ----
    EVAL_CKPT_PATH_DIR,            \* the configured checkpoint path
    eval_pc,                       \* where eval is
    folder,                        \* indices of the checkpoints in the folder
    log_file_dir,                  \* history_of_success/ exists
    prev_ckpt_ind,
    current_ckpt,
    ckpt_ind,
    episode_success_histogram,
    episode_success_history,
    success_counter,               \* what the hook returned
    aggregated_stats,
    ckpt_logs,                     \* history_of_success/<index>.log files
    cumulative_log,                \* history_of_success.log, <<>> while missing
    polls,                         \* arguments of the poll_checkpoint_folder calls
    sleeps,                        \* number of time.sleep(2) calls
    hook_calls,                    \* arguments of the _eval_checkpoint calls
    reports,                       \* what the returned _eval_checkpoint calls gave
    writes                         \* the log files written, in order

pauseVars == <<envs, paused, test_recurrent_hidden_states, not_done_masks,
               current_episode_reward, prev_actions, batch, rgb_frames,
               envs_to_pause, pause_status>>

trainerVars == <<config, trainer_status, error, num_updates_done,
                 num_steps_done, _last_checkpoint_percent, op, ret>>

runVars == <<run_pc, true_returns>>

setupVars == <<self_config, checkpoint_config, eval_config, setup_pc>>

rwVars == <<rw_flags, rw_data, rw_stack, rw_pending, rw_op>>

evalVars == <<EVAL_CKPT_PATH_DIR, eval_pc, folder, log_file_dir, prev_ckpt_ind,
              current_ckpt, ckpt_ind, episode_success_histogram,
              episode_success_history, success_counter, aggregated_stats,
              ckpt_logs, cumulative_log, polls, sleeps, hook_calls, reports,
              writes>>

vars == <<pauseVars, trainerVars, rwVars, evalVars, runVars,
         setupVars>>

\* Largest number of environments a batch starts with.
MaxEnvs == 4

\* Largest NUM_UPDATES and TOTAL_NUM_STEPS a config sets.
MaxTarget == 3

\* Largest NUM_CHECKPOINTS a config sets.
MaxCheckpoints == 3

\* Largest CHECKPOINT_INTERVAL a config sets.
MaxInterval == 2

\* Deepest nesting of read_write scopes.
MaxDepth == 2

\* Largest index of a checkpoint in the folder.
MaxCkptInd == 2

\* The counters run up to these values (past the target: the step counter
\* grows by whole rollouts and overshoots TOTAL_NUM_STEPS).
MaxUpdatesDone == 3 * MaxInterval
MaxStepsDone   == MaxTarget + 2

\* Longest list of command-line options of a config.
MaxOpts == 1

\* Largest NUM_UPDATES of a whole training run.
MaxRunUpdates == 2 * MaxTarget

(***************************************************************************)
(* Python floats.  percent_done() and should_checkpoint() divide, add and  *)
(* compare IEEE-754 doubles, and the strict comparison of line 291 is      *)
(* decided by their rounding (0.5 + 1/3 < 5/6 is true of doubles and false *)
(* of fractions), so a float is modelled as the double it is: a sign and   *)
(* an exact magnitude in units of 2^-60, kept as four limbs                *)
(* <<m1, m2, m3, m4>> standing for m1 + m2*2^20 + m3*2^40 + m4*2^60, of    *)
(* which at most 53 consecutive bits are significant.  Every result is     *)
(* rounded to nearest, ties to even.  The grid holds every double of       *)
(* magnitude in [2^-7, 2^12), which covers counters below 4096 and         *)
(* targets and checkpoint counts up to 127.                                *)
(***************************************************************************)
Limb == 2 ^ 20

DblZero   == [neg |-> FALSE, mag |-> <<0, 0, 0, 0>>]
DblOne    == [neg |-> FALSE, mag |-> <<0, 0, 0, 1>>]
DblNegOne == [neg |-> TRUE,  mag |-> <<0, 0, 0, 1>>]

RECURSIVE BitLength(_)
BitLength(x) == IF x = 0 THEN 0 ELSE 1 + BitLength(x \div 2)

MagBitLength(m) ==
    IF m[4] > 0 THEN 60 + BitLength(m[4])
    ELSE IF m[3] > 0 THEN 40 + BitLength(m[3])
    ELSE IF m[2] > 0 THEN 20 + BitLength(m[2])
    ELSE BitLength(m[1])

\* Carries moved up so that the three low limbs are below 2^20 again.
MagCarry(m) ==
    LET c1 == m[1] \div Limb
        l2 == m[2] + c1
        c2 == l2 \div Limb
        l3 == m[3] + c2
        c3 == l3 \div Limb
    IN  <<m[1] % Limb, l2 % Limb, l3 % Limb, m[4] + c3>>

MagAdd(x, y) == MagCarry(<<x[1] + y[1], x[2] + y[2], x[3] + y[3], x[4] + y[4]>>)

\* x - y for x >= y, borrowing from the limb above.
MagSub(x, y) ==
    LET d1 == x[1] - y[1]
        b1 == IF d1 < 0 THEN 1 ELSE 0
        d2 == x[2] - y[2] - b1
        b2 == IF d2 < 0 THEN 1 ELSE 0
        d3 == x[3] - y[3] - b2
        b3 == IF d3 < 0 THEN 1 ELSE 0
    IN  <<d1 + b1 * Limb, d2 + b2 * Limb, d3 + b3 * Limb, x[4] - y[4] - b3>>

MagLess(x, y) ==
    \/ x[4] < y[4]
    \/ x[4] = y[4] /\ x[3] < y[3]
    \/ x[4] = y[4] /\ x[3] = y[3] /\ x[2] < y[2]
    \/ x[4] = y[4] /\ x[3] = y[3] /\ x[2] = y[2] /\ x[1] < y[1]

(***************************************************************************)
(* Round a magnitude to 53 significant bits, nearest-even.  tail tells     *)
(* what the exact value holds below one unit of the grid: 0 nothing,       *)
(* 1 less than half a unit, 2 exactly half, 3 more than half.              *)
(***************************************************************************)
RoundMag(m, tail) ==
    LET e == MagBitLength(m) - 53
    IN  IF e < 0 THEN m
        ELSE IF e = 0
        THEN IF tail = 3 \/ (tail = 2 /\ m[1] % 2 = 1)
             THEN MagCarry(<<m[1] + 1, m[2], m[3], m[4]>>)
             ELSE m
        ELSE LET unit == 2 ^ e
                 half == 2 ^ (e - 1)
                 low  == m[1] % unit
                 odd  == (m[1] \div unit) % 2 = 1
                 up   == \/ low > half
                         \/ low = half /\ tail > 0
                         \/ low = half /\ tail = 0 /\ odd
             IN  MagCarry(<<m[1] - low + (IF up THEN unit ELSE 0),
                            m[2], m[3], m[4]>>)

\* int / int (true division) for a >= 0 and b > 0: the correctly rounded quotient.
FDiv(a, b) ==
    LET q4 == a \div b
        r4 == a % b
        q3 == (r4 * Limb) \div b
        r3 == (r4 * Limb) % b
        q2 == (r3 * Limb) \div b
        r2 == (r3 * Limb) % b
        q1 == (r2 * Limb) \div b
        r1 == (r2 * Limb) % b
        tail == IF r1 = 0 THEN 0
                ELSE IF 2 * r1 < b THEN 1
                ELSE IF 2 * r1 = b THEN 2 ELSE 3
    IN  [neg |-> FALSE, mag |-> RoundMag(<<q1, q2, q3, q4>>, tail)]

\* float + float.  Both operands lie on the grid, so the exact sum does too.
FAdd(x, y) ==
    IF x.neg = y.neg
    THEN [neg |-> x.neg, mag |-> RoundMag(MagAdd(x.mag, y.mag), 0)]
    ELSE IF x.mag = y.mag THEN DblZero
    ELSE IF MagLess(x.mag, y.mag)
    THEN [neg |-> y.neg, mag |-> RoundMag(MagSub(y.mag, x.mag), 0)]
    ELSE [neg |-> x.neg, mag |-> RoundMag(MagSub(x.mag, y.mag), 0)]

\* float < float (no negative zero arises: the only negative values are
\* -1.0 and -1.0 + 1/n for n >= 2).
FLess(x, y) ==
    IF x.neg /\ ~y.neg THEN TRUE
    ELSE IF ~x.neg /\ y.neg THEN FALSE
    ELSE IF x.neg THEN MagLess(y.mag, x.mag)
    ELSE MagLess(x.mag, y.mag)

\* float >= float
FGeq(x, y) == ~FLess(x, y)

\* Observation sensors of the batch dict.
Sensors == {"rgb", "depth"}

(***************************************************************************)
(* Initial batch contents.  Environment handle h (1..n) owns the entries   *)
(* 10*h + k of the k-th auxiliary array, so that every entry names both    *)
(* its owner and its array.                                                *)
(***************************************************************************)
HiddenOf(h)  == 10 * h
MaskOf(h)    == 10 * h + 1
RewardOf(h)  == 10 * h + 2
ActionOf(h)  == 10 * h + 3
ObsOf(k, h)  == IF k = "rgb" THEN 10 * h + 4 ELSE 10 * h + 5
FramesOf(h)  == <<10 * h + 6>>

\* list(range(n))
Range(n) == [i \in 1..n |-> i - 1]

\* list.pop(idx) for 0 <= idx < len(s): the list without position idx.
Pop(s, idx) == [i \in 1..(Len(s) - 1) |-> IF i <= idx THEN s[i] ELSE s[i + 1]]

\* VectorEnv.pause_at(index): the handle at that position leaves the live list.
pause_at(handles, idx) == Pop(handles, idx)

\* t[state_index]: advanced indexing along the batch dimension.
IndexSelect(t, state_index) ==
    [i \in 1..Len(state_index) |-> t[state_index[i] + 1]]

(***************************************************************************)
(* The loop of _pause_envs, lines 376-378:                                 *)
(*     for idx in reversed(envs_to_pause):                                 *)
(*         state_index.pop(idx); envs.pause_at(idx)                        *)
(* k is the number of entries of etp not yet visited: reversed() visits    *)
(* etp[k], etp[k-1], ..., etp[1].  list.pop raises IndexError when idx is  *)
(* not a position of the shortened list; the pause_at calls made before    *)
(* the raise have already changed envs.                                    *)
(***************************************************************************)
RECURSIVE PauseLoop(_, _, _, _, _)
PauseLoop(etp, k, state_index, handles, gone) ==
    IF k = 0
    THEN [state_index |-> state_index, envs |-> handles, paused |-> gone,
          raised |-> FALSE]
    ELSE LET idx == etp[k] IN
         IF idx >= Len(state_index)
         THEN [state_index |-> state_index, envs |-> handles, paused |-> gone,
               raised |-> TRUE]
         ELSE PauseLoop(etp, k - 1, Pop(state_index, idx),
                        pause_at(handles, idx),
                        Append(gone, handles[idx + 1]))

\* The returned tuple with not_done_masks and prev_actions exchanged.
pause_envs_swapped(etp, e, g, h, m, r, a, b, f) ==
    IF Len(etp) > 0
    THEN LET loop == PauseLoop(etp, Len(etp), Range(Len(e)), e, g)
             si   == loop.state_index
         IN  IF loop.raised
             THEN [raised |-> TRUE, envs |-> loop.envs, paused |-> loop.paused,
                   test_recurrent_hidden_states |-> h, not_done_masks |-> m,
                   current_episode_reward |-> r, prev_actions |-> a,
                   batch |-> b, rgb_frames |-> f]
             ELSE [raised |-> FALSE, envs |-> loop.envs, paused |-> loop.paused,
                   test_recurrent_hidden_states |-> IndexSelect(h, si),
                   not_done_masks |-> IndexSelect(a, si),
                   current_episode_reward |-> IndexSelect(r, si),
                   prev_actions |-> IndexSelect(m, si),
                   batch |-> [k \in DOMAIN b |-> IndexSelect(b[k], si)],
                   rgb_frames |-> IndexSelect(f, si)]
    ELSE [raised |-> FALSE, envs |-> e, paused |-> g,
          test_recurrent_hidden_states |-> h, not_done_masks |-> a,
          current_episode_reward |-> r, prev_actions |-> m,
          batch |-> b, rgb_frames |-> f]

(***************************************************************************)
(* BaseRLTrainer._pause_envs, lines 355-401, as a function of its          *)
(* arguments (e: envs, g: the handles paused so far, then the auxiliary    *)
(* arrays).  When the loop raises, nothing is returned: the caller keeps   *)
(* its arrays and the environments already paused stay paused.             *)
(***************************************************************************)
pause_envs(etp, e, g, h, m, r, a, b, f) ==
    IF Len(etp) > 0
    THEN LET loop == PauseLoop(etp, Len(etp), Range(Len(e)), e, g)
             si   == loop.state_index
         IN  IF loop.raised
             THEN [raised |-> TRUE, envs |-> loop.envs, paused |-> loop.paused,
                   test_recurrent_hidden_states |-> h, not_done_masks |-> m,
                   current_episode_reward |-> r, prev_actions |-> a,
                   batch |-> b, rgb_frames |-> f]
             ELSE [raised |-> FALSE, envs |-> loop.envs, paused |-> loop.paused,
                   test_recurrent_hidden_states |-> IndexSelect(h, si),
                   not_done_masks |-> IndexSelect(m, si),
                   current_episode_reward |-> IndexSelect(r, si),
                   prev_actions |-> IndexSelect(a, si),
                   batch |-> [k \in DOMAIN b |-> IndexSelect(b[k], si)],
                   rgb_frames |-> IndexSelect(f, si)]
    ELSE [raised |-> FALSE, envs |-> e, paused |-> g,
          test_recurrent_hidden_states |-> h, not_done_masks |-> m,
          current_episode_reward |-> r, prev_actions |-> a,
          batch |-> b, rgb_frames |-> f]

\* Every list of distinct valid positions of an n-environment batch, in any order.
DistinctPositions(n) ==
    UNION {{s \in [1..k -> 0..(n - 1)] :
              \A i, j \in 1..k : i # j => s[i] # s[j]} : k \in 0..n}

\* One call of _pause_envs by the evaluation loop; an IndexError ends the loop.
PauseEnvs ==
    /\ pause_status # "raised"
    /\ \E etp \in DistinctPositions(Len(envs)) :
         LET out == pause_envs(etp, envs, paused, test_recurrent_hidden_states,
                               not_done_masks, current_episode_reward,
                               prev_actions, batch, rgb_frames)
         IN  /\ envs_to_pause' = etp
             /\ pause_status' = IF out.raised THEN "raised" ELSE "returned"
             /\ envs' = out.envs
             /\ paused' = out.paused
             /\ test_recurrent_hidden_states' = out.test_recurrent_hidden_states
             /\ not_done_masks' = out.not_done_masks
             /\ current_episode_reward' = out.current_episode_reward
             /\ prev_actions' = out.prev_actions
             /\ batch' = out.batch
             /\ rgb_frames' = out.rgb_frames
    /\ UNCHANGED <<trainerVars, rwVars, evalVars, runVars, setupVars>>

\* A batch of n environments before the first pause.
InitPause ==
    \E n \in 1..MaxEnvs :
        /\ envs = [i \in 1..n |-> i]
        /\ paused = <<>>
        /\ test_recurrent_hidden_states = [i \in 1..n |-> HiddenOf(i)]
        /\ not_done_masks = [i \in 1..n |-> MaskOf(i)]
        /\ current_episode_reward = [i \in 1..n |-> RewardOf(i)]
        /\ prev_actions = [i \in 1..n |-> ActionOf(i)]
        /\ batch = [k \in Sensors |-> [i \in 1..n |-> ObsOf(k, i)]]
        /\ rgb_frames = [i \in 1..n |-> FramesOf(i)]
        /\ envs_to_pause = <<>>
        /\ pause_status = "idle"


(***************************************************************************)
(* BaseRLTrainer: construction, progress and checkpoint scheduling.        *)
(***************************************************************************)

\* The configs a trainer is constructed from; -1 is "not set".  A target
\* that is set is positive (percent_done divides by it).
Configs ==
    [NUM_UPDATES         : {-1} \cup 1..MaxTarget,
     TOTAL_NUM_STEPS     : {-1} \cup 1..MaxTarget,
     NUM_CHECKPOINTS     : {-1} \cup 0..MaxCheckpoints,
     CHECKPOINT_INTERVAL : {-1} \cup 1..MaxInterval]

\* Return values: None, a bool or a float.
RetNone     == [kind |-> "none",  b |-> FALSE, f |-> DblZero]
RetBool(v)  == [kind |-> "bool",  b |-> v,     f |-> DblZero]
RetFloat(v) == [kind |-> "float", b |-> FALSE, f |-> v]

\* The four checks of __init__, in the order the code makes them.
BothStopSetOr(cfg) == cfg.NUM_UPDATES # -1 \/ cfg.TOTAL_NUM_STEPS # -1
BothStopSet(cfg) == cfg.NUM_UPDATES # -1 /\ cfg.TOTAL_NUM_STEPS # -1

NoStopSet(cfg) == cfg.NUM_UPDATES = -1 /\ cfg.TOTAL_NUM_STEPS = -1

BothCheckpointSet(cfg) ==
    cfg.NUM_CHECKPOINTS # -1 /\ cfg.CHECKPOINT_INTERVAL # -1

\* The last check testing the stopping pair again (the block above, pasted).
NoCheckpointSetPasted(cfg) == cfg.NUM_UPDATES = -1 /\ cfg.TOTAL_NUM_STEPS = -1
NoCheckpointSet(cfg) ==
    cfg.NUM_CHECKPOINTS = -1 /\ cfg.CHECKPOINT_INTERVAL = -1

\* The RuntimeError __init__ raises for cfg, or "none".
InitError(cfg) ==
    IF BothStopSet(cfg) THEN "NUM_UPDATES and TOTAL_NUM_STEPS are both specified"
    ELSE IF NoStopSet(cfg)
    THEN "One of NUM_UPDATES and TOTAL_NUM_STEPS must be specified"
    ELSE IF BothCheckpointSet(cfg)
    THEN "NUM_CHECKPOINTS and CHECKPOINT_INTERVAL are both specified"
    ELSE IF NoCheckpointSet(cfg)
    THEN "One of NUM_CHECKPOINTS and CHECKPOINT_INTERVAL must be specified"
    ELSE "none"

\* BaseRLTrainer.__init__: the fields are set, then the config is checked.
TrainerInit ==
    /\ trainer_status = "new"
    /\ num_updates_done' = 0
    /\ num_steps_done' = 0
    /\ _last_checkpoint_percent' = DblNegOne
    /\ error' = InitError(config)
    /\ trainer_status' = IF InitError(config) = "none" THEN "ready" ELSE "error"
    /\ op' = "__init__"
    /\ ret' = RetNone
    /\ UNCHANGED config
    /\ UNCHANGED <<pauseVars, rwVars, evalVars, runVars, setupVars>>

\* percent_done with the counters exchanged.
percent_done_swapped(cfg, updates, steps) ==
    IF cfg.NUM_UPDATES # -1
    THEN FDiv(steps, cfg.NUM_UPDATES)
    ELSE FDiv(updates, cfg.TOTAL_NUM_STEPS)

\* BaseRLTrainer.percent_done
percent_done(cfg, updates, steps) ==
    IF cfg.NUM_UPDATES # -1
    THEN FDiv(updates, cfg.NUM_UPDATES)
    ELSE FDiv(steps, cfg.TOTAL_NUM_STEPS)

\* is_done with > for >=.
is_done_strict(cfg, updates, steps) ==
    FLess(DblOne, percent_done(cfg, updates, steps))

\* BaseRLTrainer.is_done
is_done(cfg, updates, steps) == FGeq(percent_done(cfg, updates, steps), DblOne)

\* The count-mode test with <= for <.
CountTriggerLeq(last, checkpoint_every, pd) ==
    ~FLess(pd, FAdd(last, checkpoint_every))

\* self._last_checkpoint_percent + checkpoint_every < self.percent_done()
CountTrigger(last, checkpoint_every, pd) ==
    FLess(FAdd(last, checkpoint_every), pd)

\* The interval test of _should_save_resume_state, which counts from one.
IntervalTriggerNext(updates, interval) == ((updates + 1) % interval) = 0

\* (self.num_updates_done % self.config.CHECKPOINT_INTERVAL) == 0
IntervalTrigger(updates, interval) == (updates % interval) = 0

\* NUM_CHECKPOINTS == 0 answering True.
NoCheckpointsAnswerTrue == TRUE

\* What should_checkpoint returns when NUM_CHECKPOINTS == 0.
NoCheckpointsAnswer == FALSE

\* should_checkpoint without the assignment of line 295.
should_checkpoint_stale(cfg, updates, steps, last) ==
    IF cfg.NUM_CHECKPOINTS # -1
    THEN IF cfg.NUM_CHECKPOINTS = 0
         THEN [needs_checkpoint |-> NoCheckpointsAnswer, last |-> last]
         ELSE [needs_checkpoint |->
                   CountTrigger(last, FDiv(1, cfg.NUM_CHECKPOINTS),
                                percent_done(cfg, updates, steps)),
               last |-> last]
    ELSE [needs_checkpoint |-> IntervalTrigger(updates, cfg.CHECKPOINT_INTERVAL),
          last |-> last]

\* BaseRLTrainer.should_checkpoint as a function of the trainer's fields:
\* what it returns and the _last_checkpoint_percent it leaves.
should_checkpoint(cfg, updates, steps, last) ==
    IF cfg.NUM_CHECKPOINTS # -1
    THEN IF cfg.NUM_CHECKPOINTS = 0
         THEN [needs_checkpoint |-> NoCheckpointsAnswer, last |-> last]
         ELSE LET checkpoint_every == FDiv(1, cfg.NUM_CHECKPOINTS)
                  pd == percent_done(cfg, updates, steps)
              IN  IF CountTrigger(last, checkpoint_every, pd)
                  THEN [needs_checkpoint |-> TRUE, last |-> pd]
                  ELSE [needs_checkpoint |-> FALSE, last |-> last]
    ELSE [needs_checkpoint |-> IntervalTrigger(updates, cfg.CHECKPOINT_INTERVAL),
          last |-> last]

PercentDone ==
    /\ trainer_status = "ready"
    /\ op' = "percent_done"
    /\ ret' = RetFloat(percent_done(config, num_updates_done, num_steps_done))
    /\ UNCHANGED <<config, trainer_status, error, num_updates_done,
                   num_steps_done, _last_checkpoint_percent>>
    /\ UNCHANGED <<pauseVars, rwVars, evalVars, runVars, setupVars>>

IsDone ==
    /\ trainer_status = "ready"
    /\ op' = "is_done"
    /\ ret' = RetBool(is_done(config, num_updates_done, num_steps_done))
    /\ UNCHANGED <<config, trainer_status, error, num_updates_done,
                   num_steps_done, _last_checkpoint_percent>>
    /\ UNCHANGED <<pauseVars, rwVars, evalVars, runVars, setupVars>>

ShouldCheckpoint ==
    /\ trainer_status = "ready"
    /\ LET out == should_checkpoint(config, num_updates_done, num_steps_done,
                                    _last_checkpoint_percent)
       IN  /\ ret' = RetBool(out.needs_checkpoint)
           /\ _last_checkpoint_percent' = out.last
    /\ op' = "should_checkpoint"
    /\ UNCHANGED <<config, trainer_status, error, num_updates_done,
                   num_steps_done>>
    /\ UNCHANGED <<pauseVars, rwVars, evalVars, runVars, setupVars>>

\* The training loop of a concrete trainer finishes an update.
UpdateDone ==
    /\ trainer_status = "ready"
    /\ num_updates_done < MaxUpdatesDone
    /\ num_updates_done' = num_updates_done + 1
    /\ op' = "update"
    /\ ret' = RetNone
    /\ UNCHANGED <<config, trainer_status, error, num_steps_done,
                   _last_checkpoint_percent>>
    /\ UNCHANGED <<pauseVars, rwVars, evalVars, runVars, setupVars>>

\* The training loop of a concrete trainer collects k environment steps.
StepsDone ==
    /\ trainer_status = "ready"
    /\ \E k \in 1..2 :
         /\ num_steps_done + k <= MaxStepsDone
         /\ num_steps_done' = num_steps_done + k
    /\ op' = "steps"
    /\ ret' = RetNone
    /\ UNCHANGED <<config, trainer_status, error, num_updates_done,
                   _last_checkpoint_percent>>
    /\ UNCHANGED <<pauseVars, rwVars, evalVars, runVars, setupVars>>

\* A config, and a trainer about to be constructed from it.
InitTrainer ==
    /\ config \in Configs
    /\ trainer_status = "new"
    /\ error = "none"
    /\ num_updates_done = 0
    /\ num_steps_done = 0
    /\ _last_checkpoint_percent = DblNegOne
    /\ op = "none"
    /\ ret = RetNone

\* No trainer: the state of the trainer variables while only the pauser runs.
NoTrainer ==
    /\ config = [NUM_UPDATES |-> -1, TOTAL_NUM_STEPS |-> -1,
                 NUM_CHECKPOINTS |-> -1, CHECKPOINT_INTERVAL |-> -1]
    /\ trainer_status = "new"
    /\ error = "none"
    /\ num_updates_done = 0
    /\ num_steps_done = 0
    /\ _last_checkpoint_percent = DblNegOne
    /\ op = "none"
    /\ ret = RetNone

\* No batch: the state of the pauser variables while only the trainer runs.
NoBatch ==
    /\ envs = <<>>
    /\ paused = <<>>
    /\ test_recurrent_hidden_states = <<>>
    /\ not_done_masks = <<>>
    /\ current_episode_reward = <<>>
    /\ prev_actions = <<>>
    /\ batch = [k \in Sensors |-> <<>>]
    /\ rgb_frames = <<>>
    /\ envs_to_pause = <<>>
    /\ pause_status = "idle"


(***************************************************************************)
(* habitat/config/read_write.py: the read_write context manager over       *)
(* OmegaConf containers.  A node flag is "True", "False" or "None" (not    *)
(* set).  A container whose readonly flag is "True" refuses every          *)
(* modification and one whose struct flag is "True" refuses new keys       *)
(* (lines 16-19); the code between entry and exit is the body of the with  *)
(* statement, which writes to containers and may raise.                    *)
(***************************************************************************)
Containers == {"config", "other"}

\* An argument of read_write that is no OmegaConf Container.
NotAContainer == "dict"

FlagValues == {"True", "False", "None"}

\* config._get_node_flag(name): the node's own flag.
get_node_flag(flags, c, name) == flags[c][name]

\* OmegaConf.set_readonly(config, value)
set_readonly(flags, c, value) == [flags EXCEPT ![c].readonly = value]

\* OmegaConf.set_struct(config, value)
set_struct(flags, c, value) == [flags EXCEPT ![c].struct = value]

\* Entry that unlocks readonly and leaves struct as it was.
rw_enter_readonly_only(flags, c) ==
    LET prev_state_readonly == get_node_flag(flags, c, "readonly")
        prev_state_struct   == get_node_flag(flags, c, "struct")
    IN  [flags |-> set_readonly(flags, c, "False"),
         frame |-> [config |-> c, yielded |-> c,
                    prev_state_readonly |-> prev_state_readonly,
                    prev_state_struct |-> prev_state_struct]]

\* read_write, lines 34-40: from the call to the yield.  The frame is what
\* the suspended generator holds: its argument, what it yielded and the
\* two saved flags.
rw_enter(flags, c) ==
    LET prev_state_readonly == get_node_flag(flags, c, "readonly")
        prev_state_struct   == get_node_flag(flags, c, "struct")
    IN  [flags |-> set_readonly(set_struct(flags, c, "False"), c, "False"),
         frame |-> [config |-> c, yielded |-> c,
                    prev_state_readonly |-> prev_state_readonly,
                    prev_state_struct |-> prev_state_struct]]

\* Exit that locks the config instead of restoring the saved flags.
rw_exit_locked(flags, frame) ==
    set_struct(set_readonly(flags, frame.config, "True"), frame.config, "True")

\* read_write, lines 41-43: the finally block.
rw_exit(flags, frame) ==
    set_struct(set_readonly(flags, frame.config, frame.prev_state_readonly),
               frame.config, frame.prev_state_struct)

\* with read_write(c): entered from the caller or from the body of an open
\* scope.  The assert of line 34 fails for anything but a Container.
RWEnter ==
    /\ ~rw_pending
    /\ Len(rw_stack) < MaxDepth
    /\ \E c \in Containers \cup {NotAContainer} :
         IF c \in Containers
         THEN LET out == rw_enter(rw_flags, c)
              IN  /\ rw_flags' = out.flags
                  /\ rw_stack' = Append(rw_stack, out.frame)
                  /\ rw_pending' = FALSE
         ELSE /\ rw_pending' = TRUE
              /\ UNCHANGED <<rw_flags, rw_stack>>
    /\ rw_op' = "enter"
    /\ UNCHANGED rw_data
    /\ UNCHANGED <<pauseVars, trainerVars, evalVars, runVars, setupVars>>

\* The innermost scope is left, by the end of its body or by the exception
\* that is propagating; the finally block re-raises what it was entered with.
RWExit ==
    /\ Len(rw_stack) > 0
    /\ rw_flags' = rw_exit(rw_flags, rw_stack[Len(rw_stack)])
    /\ rw_stack' = SubSeq(rw_stack, 1, Len(rw_stack) - 1)
    /\ rw_op' = "exit"
    /\ UNCHANGED <<rw_data, rw_pending>>
    /\ UNCHANGED <<pauseVars, trainerVars, evalVars, runVars, setupVars>>

\* c.key = v for an existing key: ReadonlyConfigError on a readonly container.
RWSetValue ==
    /\ ~rw_pending
    /\ \E c \in Containers, v \in 0..1 :
         IF get_node_flag(rw_flags, c, "readonly") = "True"
         THEN rw_pending' = TRUE /\ UNCHANGED rw_data
         ELSE rw_pending' = FALSE /\ rw_data' = [rw_data EXCEPT ![c].value = v]
    /\ rw_op' = "set"
    /\ UNCHANGED <<rw_flags, rw_stack>>
    /\ UNCHANGED <<pauseVars, trainerVars, evalVars, runVars, setupVars>>

\* c.new_key = v: refused by a readonly and by a struct container.
RWAddKey ==
    /\ ~rw_pending
    /\ \E c \in Containers :
         IF \/ get_node_flag(rw_flags, c, "readonly") = "True"
            \/ get_node_flag(rw_flags, c, "struct") = "True"
         THEN rw_pending' = TRUE /\ UNCHANGED rw_data
         ELSE rw_pending' = FALSE /\ rw_data' = [rw_data EXCEPT ![c].extra = TRUE]
    /\ rw_op' = "add"
    /\ UNCHANGED <<rw_flags, rw_stack>>
    /\ UNCHANGED <<pauseVars, trainerVars, evalVars, runVars, setupVars>>

\* The body of an open scope raises.
RWBodyRaise ==
    /\ ~rw_pending
    /\ Len(rw_stack) > 0
    /\ rw_pending' = TRUE
    /\ rw_op' = "raise"
    /\ UNCHANGED <<rw_flags, rw_data, rw_stack>>
    /\ UNCHANGED <<pauseVars, trainerVars, evalVars, runVars, setupVars>>

\* The code the exception has reached catches it.
RWCatch ==
    /\ rw_pending
    /\ rw_pending' = FALSE
    /\ rw_op' = "catch"
    /\ UNCHANGED <<rw_flags, rw_data, rw_stack>>
    /\ UNCHANGED <<pauseVars, trainerVars, evalVars, runVars, setupVars>>

\* Two containers with any flags, no scope open.
InitReadWrite ==
    /\ rw_flags \in [Containers -> [readonly : FlagValues, struct : FlagValues]]
    /\ rw_data = [c \in Containers |-> [value |-> 0, extra |-> FALSE]]
    /\ rw_stack = <<>>
    /\ rw_pending = FALSE
    /\ rw_op = "none"

\* No config in use: the read_write variables while another part runs.
NoScope ==
    /\ rw_flags = [c \in Containers |-> [readonly |-> "None", struct |-> "None"]]
    /\ rw_data = [c \in Containers |-> [value |-> 0, extra |-> FALSE]]
    /\ rw_stack = <<>>
    /\ rw_pending = FALSE
    /\ rw_op = "none"

(***************************************************************************)
(* BaseTrainer.eval, lines 76-187: one checkpoint file is evaluated once,  *)
(* a checkpoint folder is polled and every checkpoint the poll returns is  *)
(* evaluated, merged into the success statistics and logged.  A path is a  *)
(* record: its kind, whether its file name carries an index, and the       *)
(* index.  Success values are the floats 0.0 and 1.0, whose sums are       *)
(* exact, written 0 and 1.                                                 *)
(***************************************************************************)
CkptFile(i) == [kind |-> "file", numbered |-> TRUE, id |-> i]

UnnumberedFile == [kind |-> "file", numbered |-> FALSE, id |-> 0]

CkptFolder == [kind |-> "dir", numbered |-> FALSE, id |-> 0]

\* current_ckpt = None
NoCheckpoint == [kind |-> "none", numbered |-> FALSE, id |-> 0]

\* An int or None.
None == [some |-> FALSE, val |-> 0]

Some(v) == [some |-> TRUE, val |-> v]

CkptInds == 0..MaxCkptInd

Metrics == {"success", "spl"}

\* What an evaluation may return: a success mapping, which is empty in the
\* first, and the aggregated stats.
HookResults ==
    { [success_counter |-> [k \in {} |-> 0],
       aggregated_stats |-> [reward |-> 0]],
      [success_counter |-> [k \in {"success"} |-> 1],
       aggregated_stats |-> [reward |-> 1]],
      [success_counter |-> [k \in {"success"} |-> 0],
       aggregated_stats |-> [reward |-> 0]],
      [success_counter |-> [k \in Metrics |-> IF k = "success" THEN 1 ELSE 0],
       aggregated_stats |-> [reward |-> 1]] }

\* os.path.isfile(path)
isfile(path) == path.kind = "file"

\* get_checkpoint_id(path): the index in the file name, if there is one.
get_checkpoint_id(path) == IF path.numbered THEN Some(path.id) ELSE None

\* poll_checkpoint_folder(folder, previous_ckpt_ind): the results it may
\* give.  A checkpoint of the folder with an index above previous_ckpt_ind,
\* and no checkpoint when the folder has none.
poll_checkpoint_folder(dir, previous_ckpt_ind) ==
    LET newer == {i \in dir : i > previous_ckpt_ind}
    IN  IF newer = {}
        THEN {[path |-> NoCheckpoint, index |-> previous_ckpt_ind]}
        ELSE {[path |-> CkptFile(i), index |-> i] : i \in newer}

\* Index of a single file that ignores the file name.
ckpt_idx_zero(path) == 0

\* Lines 105-111: the index a single checkpoint file is evaluated with.
ckpt_idx(path) ==
    LET proposed_index == get_checkpoint_id(path)
    IN  IF proposed_index.some THEN proposed_index.val ELSE 0

\* Lines 135-138 with the loop going on after an empty poll.
after_poll_retry(ckpt) == IF ckpt = NoCheckpoint THEN "poll" ELSE "eval"

\* Lines 135-141: where the loop is after a poll.
after_poll(ckpt) == IF ckpt = NoCheckpoint THEN "done" ELSE "eval"

\* Line 140 left out.
advance_stale(prev, ind) == prev

\* Line 140: prev_ckpt_ind = ckpt_ind
advance(prev, ind) == ind

\* The loop going on after _eval_checkpoint raised.
hook_raised_swallowed == "poll"

\* Lines 112 and 141: nothing catches what _eval_checkpoint raises.
hook_raised == "failed"

\* Merge that starts every entry anew.
merge_histogram_reset(hist, counter) ==
    [k \in DOMAIN hist \cup DOMAIN counter |->
        IF k \in DOMAIN counter
        THEN [sum |-> counter[k], count |-> 1]
        ELSE hist[k]]

\* Lines 146-152: the mapping's values added to the histogram.
merge_histogram(hist, counter) ==
    [k \in DOMAIN hist \cup DOMAIN counter |->
        IF k \in DOMAIN counter
        THEN LET old == IF k \in DOMAIN hist THEN hist[k]
                        ELSE [sum |-> 0, count |-> 0]
             IN  [sum |-> old.sum + counter[k], count |-> old.count + 1]
        ELSE hist[k]]

RECURSIVE sum_values(_)
\* sum(v for v in success_counter.values())
sum_values(counter) ==
    IF DOMAIN counter = {} THEN 0
    ELSE LET k == CHOOSE x \in DOMAIN counter : TRUE
         IN  counter[k]
               + sum_values([x \in DOMAIN counter \ {k} |-> counter[x]])

\* Lines 156-157 and 174: the mean of a non-empty mapping, a float.
mean_success(counter) == FDiv(sum_values(counter), Cardinality(DOMAIN counter))

\* Entry with a mean of 0.0 for an empty mapping.
history_entry_bogus(ind, counter) ==
    [raised |-> FALSE,
     entry  |-> [index |-> ind,
                 mean  |-> IF DOMAIN counter = {} THEN DblZero
                           ELSE mean_success(counter)]]

\* Lines 153-159: the entry appended to the history; the division of line
\* 157 raises ZeroDivisionError for an empty mapping.
history_entry(ind, counter) ==
    IF DOMAIN counter = {}
    THEN [raised |-> TRUE, entry |-> [index |-> ind, mean |-> DblZero]]
    ELSE [raised |-> FALSE,
          entry  |-> [index |-> ind, mean |-> mean_success(counter)]]

\* Summary of the latest checkpoint only.
history_string_latest(ind, hist, history) ==
    [at |-> ind, histogram |-> hist,
     history |-> SubSeq(history, Len(history), Len(history))]

\* Lines 161-167: what the summary says; each mean is printed times 100.
history_string(ind, hist, history) ==
    [at |-> ind, histogram |-> hist, history |-> history]

\* Lines 173-177: what the log of one checkpoint says.
ckpt_log(ckpt, counter, stats) ==
    [ckpt |-> ckpt, mean |-> mean_success(counter), stats |-> stats]

\* Lines 84-127: the asserts on the video options, then the branch on the
\* checkpoint path.  A file is handed to _eval_checkpoint; for a folder the
\* log directory is made and the loop begins.
EvalStart ==
    /\ eval_pc = "start"
    /\ \E VIDEO_OPTION \in SUBSET {"tensorboard", "disk"},
          TENSORBOARD_DIR \in {"", "tb"}, VIDEO_DIR \in {"", "video_dir"} :
         IF \/ "tensorboard" \in VIDEO_OPTION /\ TENSORBOARD_DIR = ""
            \/ "disk" \in VIDEO_OPTION /\ VIDEO_DIR = ""
         THEN /\ eval_pc' = "failed"
              /\ UNCHANGED <<log_file_dir, prev_ckpt_ind, hook_calls>>
         ELSE IF isfile(EVAL_CKPT_PATH_DIR)
         THEN /\ hook_calls' = Append(hook_calls,
                     [checkpoint_path |-> EVAL_CKPT_PATH_DIR,
                      checkpoint_index |-> ckpt_idx(EVAL_CKPT_PATH_DIR)])
              /\ eval_pc' = "file_eval"
              /\ UNCHANGED <<log_file_dir, prev_ckpt_ind>>
         ELSE /\ log_file_dir' = TRUE
              /\ prev_ckpt_ind' = -1
              /\ eval_pc' = "poll"
              /\ UNCHANGED hook_calls
    /\ UNCHANGED <<EVAL_CKPT_PATH_DIR, folder, current_ckpt, ckpt_ind,
                   episode_success_histogram, episode_success_history,
                   success_counter, aggregated_stats, ckpt_logs,
                   cumulative_log, polls, sleeps, reports, writes>>
    /\ UNCHANGED <<pauseVars, trainerVars, rwVars, runVars, setupVars>>

\* Lines 112-116: the evaluation of the single file returns, and eval with it.
EvalFileReturn ==
    /\ eval_pc = "file_eval"
    /\ eval_pc' = "done"
    /\ UNCHANGED <<EVAL_CKPT_PATH_DIR, folder, log_file_dir, prev_ckpt_ind,
                   current_ckpt, ckpt_ind, episode_success_histogram,
                   episode_success_history, success_counter, aggregated_stats,
                   ckpt_logs, cumulative_log, polls, sleeps, hook_calls,
                   reports, writes>>
    /\ UNCHANGED <<pauseVars, trainerVars, rwVars, runVars, setupVars>>

\* Lines 129-145: one poll and the sleep after it; the loop ends when the
\* poll gave no checkpoint and hands the checkpoint to _eval_checkpoint
\* otherwise.
EvalPoll ==
    /\ eval_pc = "poll"
    /\ \E polled \in poll_checkpoint_folder(folder, prev_ckpt_ind) :
         /\ current_ckpt' = polled.path
         /\ ckpt_ind' = polled.index
         /\ eval_pc' = after_poll(polled.path)
         /\ IF after_poll(polled.path) = "eval"
            THEN /\ prev_ckpt_ind' = advance(prev_ckpt_ind, polled.index)
                 /\ hook_calls' = Append(hook_calls,
                        [checkpoint_path |-> polled.path,
                         checkpoint_index |-> advance(prev_ckpt_ind, polled.index)])
            ELSE UNCHANGED <<prev_ckpt_ind, hook_calls>>
    /\ polls' = Append(polls, prev_ckpt_ind)
    /\ sleeps' = sleeps + 1
    /\ UNCHANGED <<EVAL_CKPT_PATH_DIR, folder, log_file_dir,
                   episode_success_histogram, episode_success_history,
                   success_counter, aggregated_stats, ckpt_logs,
                   cumulative_log, reports, writes>>
    /\ UNCHANGED <<pauseVars, trainerVars, rwVars, runVars, setupVars>>

\* Lines 141-159: _eval_checkpoint returns a success mapping and the
\* aggregated stats; the mapping is merged into the histogram and its mean
\* appended to the history.  The mean of an empty mapping divides by zero.
EvalHookReturn ==
    /\ eval_pc = "eval"
    /\ \E result \in HookResults :
       LET counter == result.success_counter
           stats   == result.aggregated_stats
       IN
         /\ success_counter' = counter
         /\ aggregated_stats' = stats
         /\ reports' = Append(reports, [index |-> prev_ckpt_ind,
                                        success_counter |-> counter,
                                        aggregated_stats |-> stats])
         /\ episode_success_histogram' =
                merge_histogram(episode_success_histogram, counter)
         /\ IF history_entry(prev_ckpt_ind, counter).raised
            THEN /\ eval_pc' = "failed"
                 /\ UNCHANGED episode_success_history
            ELSE /\ episode_success_history' =
                        Append(episode_success_history,
                               history_entry(prev_ckpt_ind, counter).entry)
                 /\ eval_pc' = "log_ckpt"
    /\ UNCHANGED <<EVAL_CKPT_PATH_DIR, folder, log_file_dir, prev_ckpt_ind,
                   current_ckpt, ckpt_ind, ckpt_logs, cumulative_log, polls,
                   sleeps, hook_calls, writes>>
    /\ UNCHANGED <<pauseVars, trainerVars, rwVars, runVars, setupVars>>

\* _eval_checkpoint raises: eval has no handler around either call.
EvalHookRaise ==
    /\ eval_pc \in {"file_eval", "eval"}
    /\ eval_pc' = hook_raised
    /\ UNCHANGED <<EVAL_CKPT_PATH_DIR, folder, log_file_dir, prev_ckpt_ind,
                   current_ckpt, ckpt_ind, episode_success_histogram,
                   episode_success_history, success_counter, aggregated_stats,
                   ckpt_logs, cumulative_log, polls, sleeps, hook_calls,
                   reports, writes>>
    /\ UNCHANGED <<pauseVars, trainerVars, rwVars, runVars, setupVars>>

\* Lines 168-178: history_of_success/<prev_ckpt_ind>.log is written.
EvalWriteCkptLog ==
    /\ eval_pc = "log_ckpt"
    /\ ckpt_logs' =
         [i \in DOMAIN ckpt_logs \cup {prev_ckpt_ind} |->
            IF i = prev_ckpt_ind
            THEN ckpt_log(current_ckpt, success_counter, aggregated_stats)
            ELSE ckpt_logs[i]]
    /\ writes' = Append(writes, Some(prev_ckpt_ind))
    /\ eval_pc' = "log_cumulative"
    /\ UNCHANGED <<EVAL_CKPT_PATH_DIR, folder, log_file_dir, prev_ckpt_ind,
                   current_ckpt, ckpt_ind, episode_success_histogram,
                   episode_success_history, success_counter, aggregated_stats,
                   cumulative_log, polls, sleeps, hook_calls, reports>>
    /\ UNCHANGED <<pauseVars, trainerVars, rwVars, runVars, setupVars>>

\* Lines 180-187: history_of_success.log is overwritten; the loop goes on.
EvalWriteCumulativeLog ==
    /\ eval_pc = "log_cumulative"
    /\ cumulative_log' = <<history_string(prev_ckpt_ind,
                                          episode_success_histogram,
                                          episode_success_history)>>
    /\ writes' = Append(writes, None)
    /\ eval_pc' = "poll"
    /\ UNCHANGED <<EVAL_CKPT_PATH_DIR, folder, log_file_dir, prev_ckpt_ind,
                   current_ckpt, ckpt_ind, episode_success_histogram,
                   episode_success_history, success_counter, aggregated_stats,
                   ckpt_logs, polls, sleeps, hook_calls, reports>>
    /\ UNCHANGED <<pauseVars, trainerVars, rwVars, runVars, setupVars>>

\* The training process saves a checkpoint into the folder.
SaveCheckpoint ==
    /\ EVAL_CKPT_PATH_DIR = CkptFolder
    /\ eval_pc \notin {"done", "failed"}
    /\ \E i \in CkptInds \ folder : folder' = folder \cup {i}
    /\ UNCHANGED <<EVAL_CKPT_PATH_DIR, eval_pc, log_file_dir, prev_ckpt_ind,
                   current_ckpt, ckpt_ind, episode_success_histogram,
                   episode_success_history, success_counter, aggregated_stats,
                   ckpt_logs, cumulative_log, polls, sleeps, hook_calls,
                   reports, writes>>
    /\ UNCHANGED <<pauseVars, trainerVars, rwVars, runVars, setupVars>>

\* eval is called with a checkpoint file or a checkpoint folder configured.
InitEval ==
    /\ EVAL_CKPT_PATH_DIR \in
         {CkptFolder, UnnumberedFile} \cup {CkptFile(i) : i \in CkptInds}
    /\ eval_pc = "start"
    /\ folder = {}
    /\ log_file_dir = FALSE
    /\ prev_ckpt_ind = 0
    /\ current_ckpt = NoCheckpoint
    /\ ckpt_ind = 0
    /\ episode_success_histogram = [k \in {} |-> [sum |-> 0, count |-> 0]]
    /\ episode_success_history = <<>>
    /\ success_counter = [k \in {} |-> 0]
    /\ aggregated_stats = [reward |-> 0]
    /\ ckpt_logs = [i \in {} |-> ckpt_log(NoCheckpoint, [k \in {"success"} |-> 0],
                                          [reward |-> 0])]
    /\ cumulative_log = <<>>
    /\ polls = <<>>
    /\ sleeps = 0
    /\ hook_calls = <<>>
    /\ reports = <<>>
    /\ writes = <<>>

\* eval is not called: its variables while another part runs.
NoEval ==
    /\ EVAL_CKPT_PATH_DIR = CkptFolder
    /\ eval_pc = "idle"
    /\ folder = {}
    /\ log_file_dir = FALSE
    /\ prev_ckpt_ind = 0
    /\ current_ckpt = NoCheckpoint
    /\ ckpt_ind = 0
    /\ episode_success_histogram = [k \in {} |-> [sum |-> 0, count |-> 0]]
    /\ episode_success_history = <<>>
    /\ success_counter = [k \in {} |-> 0]
    /\ aggregated_stats = [reward |-> 0]
    /\ ckpt_logs = <<>>
    /\ cumulative_log = <<>>
    /\ polls = <<>>
    /\ sleeps = 0
    /\ hook_calls = <<>>
    /\ reports = <<>>
    /\ writes = <<>>

(***************************************************************************)
(* A whole training run in update-count stopping mode: the loop of a       *)
(* concrete trainer, which tests is_done, finishes one update and then     *)
(* calls should_checkpoint once.                                           *)
(***************************************************************************)
RunConfigs ==
    {cfg \in [NUM_UPDATES         : 1..MaxRunUpdates,
              TOTAL_NUM_STEPS     : {-1},
              NUM_CHECKPOINTS     : {-1} \cup 0..MaxCheckpoints,
              CHECKPOINT_INTERVAL : {-1} \cup 1..MaxInterval] :
        InitError(cfg) = "none"}

\* while not self.is_done():
RunIsDone ==
    /\ run_pc = "test"
    /\ LET done == is_done(config, num_updates_done, num_steps_done)
       IN  /\ ret' = RetBool(done)
           /\ run_pc' = IF done THEN "over" ELSE "update"
    /\ op' = "is_done"
    /\ UNCHANGED <<config, trainer_status, error, num_updates_done,
                   num_steps_done, _last_checkpoint_percent, true_returns>>
    /\ UNCHANGED <<pauseVars, rwVars, evalVars, setupVars>>

\* self.num_updates_done += 1
RunUpdate ==
    /\ run_pc = "update"
    /\ num_updates_done' = num_updates_done + 1
    /\ run_pc' = "check"
    /\ op' = "update"
    /\ ret' = RetNone
    /\ UNCHANGED <<config, trainer_status, error, num_steps_done,
                   _last_checkpoint_percent, true_returns>>
    /\ UNCHANGED <<pauseVars, rwVars, evalVars, setupVars>>

\* if self.should_checkpoint(): the one call after the update.
RunShouldCheckpoint ==
    /\ run_pc = "check"
    /\ LET out == should_checkpoint(config, num_updates_done, num_steps_done,
                                    _last_checkpoint_percent)
       IN  /\ ret' = RetBool(out.needs_checkpoint)
           /\ _last_checkpoint_percent' = out.last
           /\ true_returns' = IF out.needs_checkpoint
                              THEN true_returns + 1 ELSE true_returns
    /\ run_pc' = "test"
    /\ op' = "should_checkpoint"
    /\ UNCHANGED <<config, trainer_status, error, num_updates_done,
                   num_steps_done>>
    /\ UNCHANGED <<pauseVars, rwVars, evalVars, setupVars>>

\* A trainer constructed from a config that stops on the update count,
\* about to enter its loop.
InitRun ==
    /\ config \in RunConfigs
    /\ trainer_status = "ready"
    /\ error = "none"
    /\ num_updates_done = 0
    /\ num_steps_done = 0
    /\ _last_checkpoint_percent = DblNegOne
    /\ op = "__init__"
    /\ ret = RetNone
    /\ run_pc = "test"
    /\ true_returns = 0

\* No run: the loop variables while another part runs.
NoRun ==
    /\ run_pc = "idle"
    /\ true_returns = 0

(***************************************************************************)
(* BaseTrainer._setup_eval_config, lines 40-74.  A config is its values, a *)
(* mapping from keys to values with the nested keys written flat           *)
(* ("SPLIT" for TASK_CONFIG.DATASET.SPLIT, "AGENT_SENSORS" for             *)
(* TASK_CONFIG.SIMULATOR.AGENT_0.SENSORS), its CMD_TRAILING_OPTS, a list   *)
(* of key and value pairs, and the frozen and new_allowed attributes of    *)
(* the node.  "OLD" is a key that only saved configs have.                 *)
(***************************************************************************)
EvalKeys == {"SPLIT", "AGENT_SENSORS", "SENSORS", "LR"}

ValuesOf(k) ==
    IF k = "SPLIT" THEN {"train", "test"}
    ELSE IF k \in {"AGENT_SENSORS", "SENSORS"} THEN {"rgb", "depth"}
    ELSE IF k = "LR" THEN {"low", "high"}
    ELSE {"old"}

\* The options a command line may set here, as key and value pairs.
Options == {[key |-> k, value |-> v] : k \in {"SPLIT", "LR"},
                                       v \in {"train", "test", "low", "high"}}
             \cap {o \in [key : {"SPLIT", "LR"},
                          value : {"train", "test", "low", "high"}] :
                     o.value \in ValuesOf(o.key)}

RECURSIVE OptLists(_)
\* The lists of at most n options.
OptLists(n) ==
    IF n = 0 THEN {<<>>}
    ELSE OptLists(n - 1)
           \cup {Append(l, o) : l \in {x \in OptLists(n - 1) : Len(x) = n - 1},
                                o \in Options}

\* config.clone(): a deep copy.
clone(cfg) == cfg

\* config.merge_from_other_cfg(other): every key of other is set in config;
\* a key config lacks is added when the node allows new keys and is a
\* KeyError otherwise.
merge_from_other_cfg(cfg, other) ==
    IF ~cfg.new_allowed /\ DOMAIN other.values \ DOMAIN cfg.values # {}
    THEN [raised |-> TRUE, config |-> cfg]
    ELSE [raised |-> FALSE,
          config |->
            [cfg EXCEPT
               !.values = [k \in DOMAIN cfg.values \cup DOMAIN other.values |->
                             IF k \in DOMAIN other.values
                             THEN other.values[k] ELSE cfg.values[k]],
               !.CMD_TRAILING_OPTS = other.CMD_TRAILING_OPTS]]

RECURSIVE merge_from_list(_, _)
\* config.merge_from_list(opts): the pairs are set in their order.
merge_from_list(cfg, opts) ==
    IF opts = <<>> THEN cfg
    ELSE merge_from_list(
             [cfg EXCEPT !.values = [k \in DOMAIN cfg.values |->
                                       IF k = opts[1].key THEN opts[1].value
                                       ELSE cfg.values[k]]],
             Tail(opts))

\* The two merges of lines 60-61 in the other order.
merge_cfgs_swapped(cfg, ckpt_cfg, self_cfg) ==
    LET first == merge_from_other_cfg(cfg, self_cfg)
    IN  IF first.raised THEN first
        ELSE merge_from_other_cfg(first.config, ckpt_cfg)

\* Lines 60-61: the saved config is merged, then the trainer's config.
merge_cfgs(cfg, ckpt_cfg, self_cfg) ==
    LET first == merge_from_other_cfg(cfg, ckpt_cfg)
    IN  IF first.raised THEN first
        ELSE merge_from_other_cfg(first.config, self_cfg)

\* Lines 68-72: defrost, the split and the sensors, freeze.
finish_eval_config(cfg, self_cfg) ==
    [cfg EXCEPT
       !.values = [k \in DOMAIN cfg.values |->
                     IF k = "SPLIT" /\ cfg.values[k] = "train" THEN "val"
                     ELSE IF k = "AGENT_SENSORS" THEN self_cfg.values["SENSORS"]
                     ELSE cfg.values[k]],
       !.frozen = TRUE]

\* _setup_eval_config(checkpoint_config) on a trainer with config self_cfg:
\* the config returned and whether the saved config was found outdated.
setup_eval_config(self_cfg, ckpt_cfg) ==
    LET cloned        == clone(self_cfg)
        ckpt_cmd_opts == ckpt_cfg.CMD_TRAILING_OPTS
        eval_cmd_opts == cloned.CMD_TRAILING_OPTS
        merged        == merge_cfgs(cloned, ckpt_cfg, self_cfg)
    IN  IF merged.raised
        THEN [outdated |-> TRUE,
              config |-> finish_eval_config(
                             merge_from_list(clone(self_cfg), eval_cmd_opts),
                             self_cfg)]
        ELSE [outdated |-> FALSE,
              config |-> finish_eval_config(
                             merge_from_list(
                                 merge_from_list(merged.config, ckpt_cmd_opts),
                                 eval_cmd_opts),
                             self_cfg)]

\* self._setup_eval_config(checkpoint_config); every object it changes is a
\* clone, so the trainer's config and the saved config stay as they are.
SetupEvalConfig ==
    /\ setup_pc = "call"
    /\ LET out == setup_eval_config(self_config, checkpoint_config)
       IN  /\ eval_config' = out.config
           /\ setup_pc' = IF out.outdated THEN "outdated" ELSE "merged"
    /\ UNCHANGED <<self_config, checkpoint_config>>
    /\ UNCHANGED <<pauseVars, trainerVars, rwVars, evalVars, runVars>>

\* The trainer's config has every key of EvalKeys; the saved config has
\* them too, with the sensors of the defaults, and may have "OLD".
InitSetup ==
    /\ self_config \in
         [values : {f \in [EvalKeys -> {"train", "test", "rgb", "depth",
                                        "low", "high"}] :
                      \A k \in EvalKeys : f[k] \in ValuesOf(k)},
          CMD_TRAILING_OPTS : OptLists(MaxOpts),
          frozen : BOOLEAN,
          new_allowed : BOOLEAN]
    /\ checkpoint_config \in
         [values : {f \in [EvalKeys -> {"train", "test", "rgb", "low", "high"}] :
                      \A k \in EvalKeys : f[k] \in ValuesOf(k)}
                   \cup {f \in [EvalKeys \cup {"OLD"} ->
                                  {"train", "test", "rgb", "low", "high", "old"}] :
                           \A k \in EvalKeys \cup {"OLD"} : f[k] \in ValuesOf(k)},
          CMD_TRAILING_OPTS : OptLists(MaxOpts),
          frozen : {TRUE},
          new_allowed : {TRUE}]
    /\ eval_config = self_config
    /\ setup_pc = "call"

\* _setup_eval_config is not called: its variables while another part runs.
NoSetup ==
    /\ self_config = [values |-> [k \in EvalKeys |-> "rgb"],
                      CMD_TRAILING_OPTS |-> <<>>,
                      frozen |-> TRUE, new_allowed |-> TRUE]
    /\ checkpoint_config = self_config
    /\ eval_config = self_config
    /\ setup_pc = "idle"

InitPauseOnly == InitPause /\ NoTrainer /\ NoScope /\ NoEval /\ NoRun /\ NoSetup

NextPause == PauseEnvs

SpecPause == InitPauseOnly /\ [][NextPause]_vars

InitTrainerOnly == InitTrainer /\ NoBatch /\ NoScope /\ NoEval /\ NoRun /\ NoSetup

NextTrainer ==
    \/ TrainerInit
    \/ PercentDone
    \/ IsDone
    \/ ShouldCheckpoint
    \/ UpdateDone
    \/ StepsDone

SpecTrainer == InitTrainerOnly /\ [][NextTrainer]_vars

InitReadWriteOnly == InitReadWrite /\ NoBatch /\ NoTrainer /\ NoEval /\ NoRun /\ NoSetup

NextReadWrite ==
    \/ RWEnter
    \/ RWExit
    \/ RWSetValue
    \/ RWAddKey
    \/ RWBodyRaise
    \/ RWCatch

SpecReadWrite == InitReadWriteOnly /\ [][NextReadWrite]_vars

InitEvalOnly == InitEval /\ NoBatch /\ NoTrainer /\ NoScope /\ NoRun /\ NoSetup

NextEval ==
    \/ EvalStart
    \/ EvalFileReturn
    \/ EvalPoll
    \/ EvalHookReturn
    \/ EvalHookRaise
    \/ EvalWriteCkptLog
    \/ EvalWriteCumulativeLog
    \/ SaveCheckpoint

SpecEval == InitEvalOnly /\ [][NextEval]_vars

\* The steps of eval itself; at most one of them is enabled at a time.
EvalStep ==
    \/ EvalStart
    \/ EvalFileReturn
    \/ EvalPoll
    \/ EvalHookReturn
    \/ EvalHookRaise
    \/ EvalWriteCkptLog
    \/ EvalWriteCumulativeLog

\* eval runs on: it takes the step it can take, and every evaluation
\* returns or raises.
SpecEvalFair == SpecEval /\ WF_vars(EvalStep)

InitRunOnly == InitRun /\ NoBatch /\ NoScope /\ NoEval /\ NoSetup

NextRun ==
    \/ RunIsDone
    \/ RunUpdate
    \/ RunShouldCheckpoint

SpecRun == InitRunOnly /\ [][NextRun]_vars

InitSetupOnly ==
    InitSetup /\ NoBatch /\ NoTrainer /\ NoScope /\ NoEval /\ NoRun

NextSetup == SetupEvalConfig

SpecSetup == InitSetupOnly /\ [][NextSetup]_vars

(***************************************************************************)
(* Claims about _pause_envs.                                               *)
(***************************************************************************)

\* The positions of an n-environment batch that are not listed, ascending.
Unlisted(n, listed) == SelectSeq(Range(n), LAMBDA p : p \notin listed)

ListedPositions(etp) == {etp[i] : i \in DOMAIN etp}

\* Every auxiliary array is aligned with the live handles: same length, and
\* position i holds the state of the environment that is the i-th live handle.
AuxAligned ==
    /\ Len(test_recurrent_hidden_states) = Len(envs)
    /\ Len(not_done_masks) = Len(envs)
    /\ Len(current_episode_reward) = Len(envs)
    /\ Len(prev_actions) = Len(envs)
    /\ Len(rgb_frames) = Len(envs)
    /\ \A k \in Sensors : Len(batch[k]) = Len(envs)
    /\ \A i \in 1..Len(envs) :
         /\ test_recurrent_hidden_states[i] = HiddenOf(envs[i])
         /\ not_done_masks[i] = MaskOf(envs[i])
         /\ current_episode_reward[i] = RewardOf(envs[i])
         /\ prev_actions[i] = ActionOf(envs[i])
         /\ rgb_frames[i] = FramesOf(envs[i])
         /\ \A k \in Sensors : batch[k][i] = ObsOf(k, envs[i])

\* C1: for every list of distinct valid positions, in any order, the call
\* returns every auxiliary array (hidden states, masks, rewards, previous
\* actions, each observation array, rgb_frames) reduced to exactly the
\* entries at the unlisted positions, in their original order, and pause_at
\* has been applied to exactly the environments that were at the listed
\* positions.
C1_PauseRemovesListed ==
    [][LET listed == ListedPositions(envs_to_pause')
           keep   == Unlisted(Len(envs), listed)
           fresh  == SubSeq(paused', Len(paused) + 1, Len(paused'))
       IN  /\ pause_status' = "returned"
           /\ test_recurrent_hidden_states'
                = IndexSelect(test_recurrent_hidden_states, keep)
           /\ not_done_masks' = IndexSelect(not_done_masks, keep)
           /\ current_episode_reward' = IndexSelect(current_episode_reward, keep)
           /\ prev_actions' = IndexSelect(prev_actions, keep)
           /\ \A k \in Sensors : batch'[k] = IndexSelect(batch[k], keep)
           /\ rgb_frames' = IndexSelect(rgb_frames, keep)
           /\ Len(fresh) = Len(envs_to_pause')
           /\ {fresh[i] : i \in DOMAIN fresh} = {envs[p + 1] : p \in listed}
      ]_vars

\* C2: after any sequence of _pause_envs calls with valid distinct indices,
\* every auxiliary array has as many entries as there are live environments
\* and position i of each holds the state of the i-th live handle.
C2_AlwaysAligned == AuxAligned

\* What does hold of the pauser: a list in ascending order (the order in
\* which the evaluation loops build it) is removed as listed, and every
\* call that returns leaves the arrays aligned with the live handles.
Ascending(s) == \A i, j \in DOMAIN s : i < j => s[i] < s[j]

PauseAscendingRemovesListed ==
    [][Ascending(envs_to_pause') =>
          LET listed == ListedPositions(envs_to_pause')
              keep   == Unlisted(Len(envs), listed)
              fresh  == SubSeq(paused', Len(paused) + 1, Len(paused'))
          IN  /\ pause_status' = "returned"
              /\ test_recurrent_hidden_states'
                   = IndexSelect(test_recurrent_hidden_states, keep)
              /\ not_done_masks' = IndexSelect(not_done_masks, keep)
              /\ current_episode_reward'
                   = IndexSelect(current_episode_reward, keep)
              /\ prev_actions' = IndexSelect(prev_actions, keep)
              /\ \A k \in Sensors : batch'[k] = IndexSelect(batch[k], keep)
              /\ rgb_frames' = IndexSelect(rgb_frames, keep)
              /\ {fresh[i] : i \in DOMAIN fresh} = {envs[p + 1] : p \in listed}
      ]_vars

AlignedWhenReturned == pause_status # "raised" => AuxAligned

\* C3: a call with an empty envs_to_pause returns, leaves the environment
\* handles and every auxiliary array unchanged, and makes no pause_at call.
C3_EmptyPauseIsNoOp ==
    [][envs_to_pause' = <<>> =>
          /\ pause_status' = "returned"
          /\ UNCHANGED <<envs, paused, test_recurrent_hidden_states,
                         not_done_masks, current_episode_reward, prev_actions,
                         batch, rgb_frames>>
      ]_vars

\* An empty call made after an earlier call has paused some environment.
C3_Witness ==
    /\ pause_status = "returned"
    /\ envs_to_pause = <<>>
    /\ Len(paused) > 0
    /\ Len(envs) > 0

(***************************************************************************)
(* Claims about BaseRLTrainer.                                             *)
(***************************************************************************)

CountMode == config.NUM_CHECKPOINTS >= 1

IntervalMode == config.CHECKPOINT_INTERVAL # -1 /\ config.NUM_CHECKPOINTS = -1

\* percent_done() in the current state.
Progress == percent_done(config, num_updates_done, num_steps_done)

\* 1 / NUM_CHECKPOINTS, as the code computes it.
CheckpointEvery == FDiv(1, config.NUM_CHECKPOINTS)

\* C4: in count mode (NUM_CHECKPOINTS >= 1) should_checkpoint returns true
\* exactly when last_checkpoint_percent + 1/NUM_CHECKPOINTS < percent_done()
\* (strictly); a call that returns true sets last_checkpoint_percent to the
\* current percent_done(), a call that returns false leaves it unchanged.
C4_CountModeTrigger ==
    [][(op' = "should_checkpoint" /\ CountMode) =>
          LET due == FLess(FAdd(_last_checkpoint_percent, CheckpointEvery),
                           Progress)
          IN  /\ ret' = RetBool(due)
              /\ _last_checkpoint_percent'
                   = IF due THEN Progress ELSE _last_checkpoint_percent
      ]_vars

\* A count-mode call that answered false with progress exactly
\* 1/NUM_CHECKPOINTS past the last checkpoint: the comparison is strict.
C4_Witness ==
    /\ op = "should_checkpoint"
    /\ CountMode
    /\ ret = RetBool(FALSE)
    /\ ~_last_checkpoint_percent.neg
    /\ FAdd(_last_checkpoint_percent, CheckpointEvery) = Progress

\* C5: in interval mode (CHECKPOINT_INTERVAL set, NUM_CHECKPOINTS = -1)
\* should_checkpoint returns true if and only if updates_done mod
\* CHECKPOINT_INTERVAL = 0, for every updates_done from 0 to 3 * interval
\* (so it is true at 0), and never changes last_checkpoint_percent.
C5_IntervalModeTrigger ==
    [][(op' = "should_checkpoint" /\ IntervalMode) =>
          /\ ret' = RetBool(\E q \in 0..num_updates_done :
                               num_updates_done = q * config.CHECKPOINT_INTERVAL)
          /\ UNCHANGED _last_checkpoint_percent
      ]_vars

\* An interval-mode call at updates_done = 3 * interval, interval above one.
C5_Witness ==
    /\ op = "should_checkpoint"
    /\ IntervalMode
    /\ config.CHECKPOINT_INTERVAL > 1
    /\ num_updates_done = 3 * config.CHECKPOINT_INTERVAL
    /\ ret = RetBool(TRUE)

\* x + y without rounding, for x and y not negative.
ExactSum(x, y) == MagAdd(x.mag, y.mag)

\* C6: in count mode last_checkpoint_percent never decreases, changes only
\* in a should_checkpoint call that returns true, strictly increases in
\* every call that returns true, and two consecutive triggering calls are
\* more than 1/NUM_CHECKPOINTS of progress apart.
C6_CursorMonotone ==
    [][CountMode =>
          /\ ~FLess(_last_checkpoint_percent', _last_checkpoint_percent)
          /\ _last_checkpoint_percent' # _last_checkpoint_percent
               => op' = "should_checkpoint" /\ ret' = RetBool(TRUE)
          /\ (op' = "should_checkpoint" /\ ret' = RetBool(TRUE)) =>
               /\ FLess(_last_checkpoint_percent, _last_checkpoint_percent')
               /\ ~_last_checkpoint_percent.neg =>
                    MagLess(ExactSum(_last_checkpoint_percent, CheckpointEvery),
                            _last_checkpoint_percent'.mag)
      ]_vars

\* A count-mode call after an earlier checkpoint, with progress made since,
\* that answered false and left the cursor where that checkpoint put it.
C6_Witness ==
    /\ op = "should_checkpoint"
    /\ CountMode
    /\ ret = RetBool(FALSE)
    /\ ~_last_checkpoint_percent.neg
    /\ _last_checkpoint_percent # DblZero
    /\ FLess(_last_checkpoint_percent, Progress)

\* C7: with NUM_CHECKPOINTS = 0 should_checkpoint returns false in every
\* reachable state, whatever the counters and the progress are, and
\* last_checkpoint_percent keeps its initial value.
C7_ZeroCheckpointsNever ==
    config.NUM_CHECKPOINTS = 0 =>
        /\ _last_checkpoint_percent = DblNegOne
        /\ op = "should_checkpoint" => ret = RetBool(FALSE)

\* should_checkpoint answered with NUM_CHECKPOINTS = 0 and training complete.
C7_Witness ==
    /\ config.NUM_CHECKPOINTS = 0
    /\ op = "should_checkpoint"
    /\ FGeq(Progress, DblOne)
    /\ num_updates_done > 0
    /\ num_steps_done > 0

StopErrors == {"NUM_UPDATES and TOTAL_NUM_STEPS are both specified",
               "One of NUM_UPDATES and TOTAL_NUM_STEPS must be specified"}

\* C8: construction fails with an error whenever NUM_UPDATES and
\* TOTAL_NUM_STEPS are both set and whenever both are -1, and never fails
\* on this pair when exactly one of the two is -1.
C8_StopPairChecked ==
    trainer_status # "new" =>
        IF (config.NUM_UPDATES = -1) = (config.TOTAL_NUM_STEPS = -1)
        THEN trainer_status = "error" /\ error \in StopErrors
        ELSE error \notin StopErrors

\* A construction that failed because both stopping criteria were set.
C8_Witness ==
    /\ trainer_status = "error"
    /\ config.NUM_UPDATES # -1
    /\ config.TOTAL_NUM_STEPS # -1
    /\ op = "__init__"

\* C9: construction fails with an error whenever NUM_CHECKPOINTS and
\* CHECKPOINT_INTERVAL are both -1 or both set, so every successfully
\* constructed trainer has exactly one stopping criterion and exactly one
\* checkpoint criterion set.
C9_CheckpointPairChecked ==
    trainer_status # "new" =>
        /\ (config.NUM_CHECKPOINTS = -1) = (config.CHECKPOINT_INTERVAL = -1)
             => trainer_status = "error" /\ error # "none"
        /\ trainer_status = "ready" =>
             /\ (config.NUM_UPDATES = -1) # (config.TOTAL_NUM_STEPS = -1)
             /\ (config.NUM_CHECKPOINTS = -1) # (config.CHECKPOINT_INTERVAL = -1)

\* A construction that failed on the checkpoint pair alone: neither
\* criterion set, the stopping pair valid.
C9_Witness ==
    /\ trainer_status = "error"
    /\ op = "__init__"
    /\ config.NUM_CHECKPOINTS = -1
    /\ config.CHECKPOINT_INTERVAL = -1
    /\ (config.NUM_UPDATES = -1) # (config.TOTAL_NUM_STEPS = -1)

\* C10: percent_done returns updates_done / NUM_UPDATES when NUM_UPDATES is
\* set and steps_done / TOTAL_NUM_STEPS otherwise, whatever the counter of
\* the other mode holds, and changes no trainer state.
C10_PercentDone ==
    [][op' = "percent_done" =>
          /\ config.NUM_UPDATES # -1 =>
               ret' = RetFloat(FDiv(num_updates_done, config.NUM_UPDATES))
          /\ config.NUM_UPDATES = -1 =>
               ret' = RetFloat(FDiv(num_steps_done, config.TOTAL_NUM_STEPS))
          /\ UNCHANGED <<config, trainer_status, error, num_updates_done,
                         num_steps_done, _last_checkpoint_percent>>
      ]_vars

\* percent_done answered in update mode while the step counter, which the
\* mode does not use, differs from the update counter.
C10_Witness ==
    /\ op = "percent_done"
    /\ config.NUM_UPDATES # -1
    /\ num_updates_done > 0
    /\ num_steps_done > num_updates_done
    /\ ret = RetFloat(FDiv(num_updates_done, config.NUM_UPDATES))

\* The configured counter has reached or passed its target.
TargetReached ==
    IF config.NUM_UPDATES # -1
    THEN num_updates_done >= config.NUM_UPDATES
    ELSE num_steps_done >= config.TOTAL_NUM_STEPS

\* C11: is_done returns true if and only if percent_done() >= 1.0, that is
\* exactly when the configured counter has reached or passed its target
\* (a counter equal to the target counts as done); with non-decreasing
\* counters is_done never goes back from true to false.
C11_IsDone ==
    [][/\ op' = "is_done" =>
            /\ ret' = RetBool(FGeq(Progress, DblOne))
            /\ ret' = RetBool(TargetReached)
       /\ (trainer_status = "ready"
             /\ is_done(config, num_updates_done, num_steps_done))
            => is_done(config, num_updates_done', num_steps_done')
      ]_vars

\* is_done answered true with the configured counter exactly at its target.
C11_Witness ==
    /\ op = "is_done"
    /\ ret = RetBool(TRUE)
    /\ config.TOTAL_NUM_STEPS > 1
    /\ num_steps_done = config.TOTAL_NUM_STEPS
    /\ num_updates_done = 0


(***************************************************************************)
(* Claims about read_write.                                                *)
(***************************************************************************)
Innermost(stack) == stack[Len(stack)]

Shorter(a, b) == IF Len(a) < Len(b) THEN Len(a) ELSE Len(b)

\* C12: every exit of a read_write scope, by the end of the body or by an
\* exception, sets the config's readonly and struct flags to exactly the
\* values they had when the scope was entered ("True", "False" or not set),
\* which are the values the scope saved at entry and kept since; an
\* exception that leaves the body is still propagating after the exit, and
\* an exit without one raises none.
C12_FlagsRestored ==
    [][/\ \A i \in 1..Shorter(rw_stack, rw_stack') : rw_stack'[i] = rw_stack[i]
       /\ Len(rw_stack') > Len(rw_stack) =>
            LET frame == Innermost(rw_stack')
            IN  /\ frame.prev_state_readonly = rw_flags[frame.config].readonly
                /\ frame.prev_state_struct = rw_flags[frame.config].struct
       /\ Len(rw_stack') < Len(rw_stack) =>
            LET frame == Innermost(rw_stack)
            IN  /\ rw_flags'[frame.config].readonly = frame.prev_state_readonly
                /\ rw_flags'[frame.config].struct = frame.prev_state_struct
                /\ \A c \in Containers \ {frame.config} : rw_flags'[c] = rw_flags[c]
                /\ rw_pending' = rw_pending
      ]_vars

\* A scope over a readonly config without a struct flag was left by an
\* exception after its body added a key: the config is readonly again, its
\* struct flag is not set, and the exception is propagating.
C12_Witness ==
    /\ rw_op = "exit"
    /\ rw_stack = <<>>
    /\ rw_pending
    /\ rw_flags["config"] = [readonly |-> "True", struct |-> "None"]
    /\ rw_data["config"].extra

\* C13: while a read_write scope over a config is open, the config's
\* readonly and struct flags both read "False", whatever they were at
\* entry, and the object the scope yielded is the config it was given.
C13_UnlockedInside ==
    \A i \in 1..Len(rw_stack) :
        /\ get_node_flag(rw_flags, rw_stack[i].config, "readonly") = "False"
        /\ get_node_flag(rw_flags, rw_stack[i].config, "struct") = "False"
        /\ rw_stack[i].yielded = rw_stack[i].config

\* Inside a scope over a config that was readonly and struct, the body has
\* changed a value and added a key.
C13_Witness ==
    /\ Len(rw_stack) = 1
    /\ rw_stack[1].config = "config"
    /\ rw_stack[1].prev_state_readonly = "True"
    /\ rw_stack[1].prev_state_struct = "True"
    /\ rw_data["config"] = [value |-> 1, extra |-> TRUE]
    /\ ~rw_pending


(***************************************************************************)
(* Claims about BaseTrainer.eval.                                          *)
(***************************************************************************)
DirectoryMode == EVAL_CKPT_PATH_DIR = CkptFolder

\* The evaluations that returned and report the metric, in order.
Reporting(k) ==
    SelectSeq(reports, LAMBDA r : k \in DOMAIN r.success_counter)

RECURSIVE Total(_, _)
\* Sum of the metric's values over a sequence of reports.
Total(k, rs) ==
    IF rs = <<>> THEN 0
    ELSE rs[1].success_counter[k] + Total(k, Tail(rs))

\* The mean of the values of a mapping with one or two metrics.
Mean(counter) ==
    IF DOMAIN counter = {"success"}
    THEN FDiv(counter["success"], 1)
    ELSE FDiv(counter["success"] + counter["spl"], 2)

\* The evaluations that returned a mapping with a metric in it.
Evaluated == SelectSeq(reports, LAMBDA r : DOMAIN r.success_counter # {})

HistogramOfReports ==
    /\ DOMAIN episode_success_histogram = {k \in Metrics : Reporting(k) # <<>>}
    /\ \A k \in DOMAIN episode_success_histogram :
         /\ episode_success_histogram[k].sum = Total(k, Reporting(k))
         /\ episode_success_histogram[k].count = Len(Reporting(k))

HistoryOfReports ==
    /\ Len(episode_success_history) = Len(Evaluated)
    /\ \A i \in 1..Len(Evaluated) :
         /\ episode_success_history[i].index = Evaluated[i].index
         /\ episode_success_history[i].mean = Mean(Evaluated[i].success_counter)

\* C14: in directory mode the histogram maps each metric to the sum of the
\* values reported for it and the number of checkpoints that reported it,
\* and the history lists, in order of evaluation, each evaluated
\* checkpoint's index with the mean of its values; no step removes a
\* metric, lowers a sum or a count, or changes or drops a history entry.
C14_HistogramAndHistory ==
    /\ [](DirectoryMode => HistogramOfReports /\ HistoryOfReports)
    /\ [][/\ DOMAIN episode_success_histogram
               \subseteq DOMAIN episode_success_histogram'
          /\ \A k \in DOMAIN episode_success_histogram :
               /\ episode_success_histogram'[k].sum
                    >= episode_success_histogram[k].sum
               /\ episode_success_histogram'[k].count
                    >= episode_success_histogram[k].count
          /\ Len(episode_success_history') >= Len(episode_success_history)
          /\ \A i \in 1..Len(episode_success_history) :
               episode_success_history'[i] = episode_success_history[i]
         ]_vars

\* Two checkpoints reported success 1.0 and then 0.0.
C14_Witness ==
    /\ DirectoryMode
    /\ Len(reports) = 2
    /\ episode_success_histogram = [k \in {"success"} |-> [sum |-> 1, count |-> 2]]
    /\ Len(episode_success_history) = 2
    /\ episode_success_history[1].mean = DblOne
    /\ episode_success_history[2].mean = DblZero
    /\ episode_success_history[1].index < episode_success_history[2].index

\* The call eval makes for a single checkpoint file.
SingleFileCall ==
    [checkpoint_path |-> EVAL_CKPT_PATH_DIR,
     checkpoint_index |-> IF EVAL_CKPT_PATH_DIR.numbered
                          THEN EVAL_CKPT_PATH_DIR.id ELSE 0]

\* C15: with a single checkpoint file configured, eval never polls the
\* folder, never sleeps and writes no success log; once its asserts on the
\* video options have passed it has called _eval_checkpoint exactly once,
\* on that file and with the index of the file name or 0 when the name has
\* none, and when that call returns eval is over.
C15_SingleFile ==
    /\ [](isfile(EVAL_CKPT_PATH_DIR) =>
            /\ polls = <<>>
            /\ sleeps = 0
            /\ writes = <<>>
            /\ DOMAIN ckpt_logs = {}
            /\ cumulative_log = <<>>
            /\ ~log_file_dir
            /\ eval_pc \in {"start", "file_eval", "done", "failed"}
            /\ eval_pc \in {"file_eval", "done"} => hook_calls = <<SingleFileCall>>
            /\ Len(hook_calls) <= 1)
    /\ [][isfile(EVAL_CKPT_PATH_DIR) =>
            /\ eval_pc = "done" => evalVars' = evalVars
            /\ (eval_pc = "file_eval" /\ eval_pc' # "file_eval")
                 => eval_pc' \in {"done", "failed"}
         ]_vars

\* eval of the file ckpt.2.pth has returned after one call with index 2.
C15_Witness ==
    /\ EVAL_CKPT_PATH_DIR = CkptFile(MaxCkptInd)
    /\ eval_pc = "done"
    /\ hook_calls = <<[checkpoint_path |-> CkptFile(MaxCkptInd),
                       checkpoint_index |-> MaxCkptInd]>>


\* A step in which poll_checkpoint_folder returned no checkpoint.
EmptyPoll ==
    /\ Len(polls') = Len(polls) + 1
    /\ current_ckpt' = NoCheckpoint

\* C16: in directory mode, after a poll that found no new checkpoint the
\* poller is still awaiting a checkpoint, to poll again after the sleep:
\* the empty poll does not end the session.
C16_EmptyPollRetries ==
    [][EmptyPoll => eval_pc' = "poll"]_vars

LastEvaluated ==
    IF hook_calls = <<>> THEN -1
    ELSE hook_calls[Len(hook_calls)].checkpoint_index

\* C18: every poll is made with the index of the checkpoint evaluated last,
\* -1 before the first; a checkpoint the poll returns is handed to
\* _eval_checkpoint once, in that step, with the index the poll returned;
\* the poll returning only indices above the one it is given, the indices
\* of the calls increase strictly.
C18_PollCursor ==
    /\ [][Len(polls') > Len(polls) =>
            /\ polls' = Append(polls, LastEvaluated)
            /\ ckpt_ind' > LastEvaluated \/ current_ckpt' = NoCheckpoint
            /\ current_ckpt' # NoCheckpoint =>
                 /\ hook_calls' = Append(hook_calls,
                        [checkpoint_path |-> current_ckpt',
                         checkpoint_index |-> ckpt_ind'])
                 /\ eval_pc' = "eval"
         ]_vars
    /\ [][Len(hook_calls') > Len(hook_calls) =>
            \/ Len(polls') > Len(polls)
            \/ isfile(EVAL_CKPT_PATH_DIR)
         ]_vars
    /\ [](\A i, j \in 1..Len(hook_calls) :
            i < j => hook_calls[i].checkpoint_index
                       < hook_calls[j].checkpoint_index)

\* Checkpoints 0 and 2 were evaluated, 1 was skipped by the poll, and the
\* third poll was made with 2.
C18_Witness ==
    /\ DirectoryMode
    /\ polls = <<-1, 0, MaxCkptInd>>
    /\ Len(hook_calls) = 2
    /\ hook_calls[1].checkpoint_index = 0
    /\ hook_calls[2] = [checkpoint_path |-> CkptFile(MaxCkptInd),
                        checkpoint_index |-> MaxCkptInd]


\* A step in which the _eval_checkpoint call of the loop ended without
\* returning.
HookRaises ==
    /\ eval_pc = "eval"
    /\ eval_pc' # "eval"
    /\ reports' = reports

\* eval is over because an _eval_checkpoint call of the loop raised.
RaisedInLoop ==
    /\ DirectoryMode
    /\ eval_pc = "failed"
    /\ Len(hook_calls) = Len(reports) + 1

\* The statistics and the logs are those of the checkpoints evaluated
\* before the latest call.
AsAfterPreviousCheckpoint ==
    /\ HistogramOfReports
    /\ HistoryOfReports
    /\ Len(episode_success_history) = Len(reports)
    /\ DOMAIN ckpt_logs = {reports[i].index : i \in 1..Len(reports)}
    /\ Len(writes) = 2 * Len(reports)
    /\ IF reports = <<>>
       THEN cumulative_log = <<>>
       ELSE /\ Len(cumulative_log) = 1
            /\ cumulative_log[1].at = reports[Len(reports)].index
            /\ cumulative_log[1].histogram = episode_success_histogram
            /\ cumulative_log[1].history = episode_success_history

\* C19: when _eval_checkpoint raises in the loop, eval is over with that
\* error: the step changes neither the histogram, the history nor any log,
\* which are as the previous checkpoint left them, and no poll, evaluation
\* or write follows.
C19_HookErrorIsFatal ==
    /\ [][/\ HookRaises =>
               /\ eval_pc' = "failed"
               /\ UNCHANGED <<episode_success_histogram,
                              episode_success_history, ckpt_logs,
                              cumulative_log, writes, polls, hook_calls>>
          /\ eval_pc = "failed" => evalVars' = evalVars
         ]_vars
    /\ [](RaisedInLoop => AsAfterPreviousCheckpoint)

\* The evaluation of the second checkpoint raised.
C19_Witness ==
    /\ RaisedInLoop
    /\ Len(reports) = 1
    /\ Len(episode_success_history) = 1
    /\ Len(cumulative_log) = 1
    /\ Len(polls) = 2

\* A step that writes the log of one checkpoint.
WritesCkptLog ==
    /\ Len(writes') = Len(writes) + 1
    /\ writes'[Len(writes')].some

\* A step that writes the cumulative log.
WritesCumulativeLog ==
    /\ Len(writes') = Len(writes) + 1
    /\ ~writes'[Len(writes')].some

\* The full histogram and history are in the log of the latest checkpoint.
FullHistoryInCkptLog ==
    LET log == ckpt_logs'[prev_ckpt_ind]
    IN  /\ {"histogram", "history"} \subseteq DOMAIN log
        /\ log.histogram = episode_success_histogram
        /\ log.history = episode_success_history

\* C20 as claimed: the log written for a checkpoint holds the full
\* histogram and history.
C20_CkptLogHoldsHistory ==
    [][WritesCkptLog => FullHistoryInCkptLog]_vars

\* The latest evaluation that returned.
LastReport == reports[Len(reports)]

\* C20: after each evaluated checkpoint the poller writes the log named by
\* the checkpoint's index once, holding the checkpoint's path, the mean of
\* its values and its aggregated stats, and then overwrites the cumulative
\* log with the full histogram and history, the current checkpoint
\* included; both writes come after the evaluation, in that order, and
\* before the next poll.
C20_LogsAfterEachCheckpoint ==
    /\ [][/\ WritesCkptLog =>
               /\ writes'[Len(writes')] = Some(LastReport.index)
               /\ LastReport.index \notin DOMAIN ckpt_logs
               /\ DOMAIN ckpt_logs' = DOMAIN ckpt_logs \cup {LastReport.index}
               /\ ckpt_logs'[LastReport.index] =
                    [ckpt |-> hook_calls[Len(hook_calls)].checkpoint_path,
                     mean |-> Mean(LastReport.success_counter),
                     stats |-> LastReport.aggregated_stats]
               /\ \A i \in DOMAIN ckpt_logs : ckpt_logs'[i] = ckpt_logs[i]
               /\ Len(writes) = 2 * (Len(reports) - 1)
               /\ Len(hook_calls) = Len(reports)
               /\ UNCHANGED cumulative_log
          /\ WritesCumulativeLog =>
               /\ Len(writes) = 2 * Len(reports) - 1
               /\ writes[Len(writes)] = Some(LastReport.index)
               /\ cumulative_log' =
                    <<[at |-> LastReport.index,
                       histogram |-> episode_success_histogram,
                       history |-> episode_success_history]>>
               /\ UNCHANGED ckpt_logs
          /\ Len(polls') > Len(polls) =>
               /\ Len(writes) = 2 * Len(reports)
               /\ Len(hook_calls) = Len(reports)
         ]_vars
    /\ [](DirectoryMode /\ Len(writes) = 2 * Len(reports) =>
            AsAfterPreviousCheckpoint)

\* Both logs of the second checkpoint are written and the poller is about
\* to poll again.
C20_Witness ==
    /\ eval_pc = "poll"
    /\ Len(reports) = 2
    /\ Len(writes) = 4
    /\ Len(cumulative_log[1].history) = 2
    /\ DOMAIN ckpt_logs = {0, MaxCkptInd}
    /\ ckpt_logs[MaxCkptInd].ckpt = CkptFile(MaxCkptInd)


(***************************************************************************)
(* Further claims about BaseRLTrainer.                                     *)
(***************************************************************************)

\* C21: in count mode with NUM_CHECKPOINTS >= 1 a should_checkpoint call
\* made while _last_checkpoint_percent still has the value of the
\* constructor, as the first call after construction is, returns True
\* whatever the progress, zero included.
C21_FirstCallTriggers ==
    [][(/\ trainer_status = "ready"
        /\ CountMode
        /\ _last_checkpoint_percent = DblNegOne
        /\ op' = "should_checkpoint")
         => ret' = RetBool(TRUE)
      ]_vars

\* C22: _last_checkpoint_percent is the -1.0 of the constructor or a
\* fraction from 0 to 1, whatever the counters and the calls made.
C22_CursorInUnitInterval ==
    \/ _last_checkpoint_percent = DblNegOne
    \/ /\ FGeq(_last_checkpoint_percent, DblZero)
       /\ FGeq(DblOne, _last_checkpoint_percent)


\* C24: over a whole run that stops on the update count, with
\* NUM_CHECKPOINTS = N >= 1, one update at a time and one should_checkpoint
\* call after each update until is_done, at most N calls return True.
C24_AtMostNCheckpoints ==
    config.NUM_CHECKPOINTS >= 1 => true_returns <= config.NUM_CHECKPOINTS

\* A run of more updates than checkpoints is over and exactly
\* NUM_CHECKPOINTS calls returned True.
C24_Witness ==
    /\ run_pc = "over"
    /\ config.NUM_CHECKPOINTS = MaxCheckpoints
    /\ config.NUM_UPDATES > MaxCheckpoints
    /\ num_updates_done = config.NUM_UPDATES
    /\ true_returns = MaxCheckpoints


(***************************************************************************)
(* Further claims about BaseTrainer.eval and read_write.                   *)
(***************************************************************************)

\* A step in which _eval_checkpoint returned an empty success mapping.
EmptyReport ==
    /\ Len(reports') = Len(reports) + 1
    /\ DOMAIN reports'[Len(reports')].success_counter = {}

\* eval is over because the latest evaluation returned an empty mapping.
FailedOnEmptyReport ==
    /\ DirectoryMode
    /\ eval_pc = "failed"
    /\ reports # <<>>
    /\ DOMAIN reports[Len(reports)].success_counter = {}

\* The statistics and the logs are those of the checkpoints before the
\* latest report.
AsBeforeLastReport ==
    LET before == SubSeq(reports, 1, Len(reports) - 1)
    IN  /\ HistogramOfReports
        /\ Len(episode_success_history) = Len(before)
        /\ \A i \in 1..Len(before) :
             /\ episode_success_history[i].index = before[i].index
             /\ episode_success_history[i].mean = Mean(before[i].success_counter)
        /\ DOMAIN ckpt_logs = {before[i].index : i \in 1..Len(before)}
        /\ Len(writes) = 2 * Len(before)
        /\ IF before = <<>>
           THEN cumulative_log = <<>>
           ELSE /\ Len(cumulative_log) = 1
                /\ cumulative_log[1].at = before[Len(before)].index
                /\ cumulative_log[1].histogram = episode_success_histogram
                /\ cumulative_log[1].history = episode_success_history

\* C25: in directory mode, when _eval_checkpoint returns an empty success
\* mapping eval fails in that step, before the checkpoint is added to the
\* history and before a log is written for it: the histogram, the history
\* and the logs are those of the previous checkpoint, and no poll,
\* evaluation or write follows.
C25_EmptyMappingFails ==
    /\ [][/\ EmptyReport =>
               /\ eval_pc' = "failed"
               /\ UNCHANGED <<episode_success_histogram,
                              episode_success_history, ckpt_logs,
                              cumulative_log, writes, polls, hook_calls>>
          /\ FailedOnEmptyReport => evalVars' = evalVars
         ]_vars
    /\ [](FailedOnEmptyReport => AsBeforeLastReport)

\* The second checkpoint's evaluation returned an empty mapping.
C25_Witness ==
    /\ FailedOnEmptyReport
    /\ Len(reports) = 2
    /\ Len(episode_success_history) = 1
    /\ Len(writes) = 2
    /\ Len(hook_calls) = 2


\* Positions in a stack of the scopes over container c.
ScopesOver(stack, c) == {i \in 1..Len(stack) : stack[i].config = c}

\* The outermost of the scopes over c.
Outermost(stack, c) ==
    stack[CHOOSE i \in ScopesOver(stack, c) :
            \A j \in ScopesOver(stack, c) : i <= j]

SavedFlags(frame) ==
    [readonly |-> frame.prev_state_readonly, struct |-> frame.prev_state_struct]

Writable == [readonly |-> "False", struct |-> "False"]

\* C26: read_write scopes over the same config nest: after every step that
\* leaves a scope over the config open, the entry and the exit of an inner
\* scope included, the config is writable (readonly and struct "False");
\* the outermost scope keeps the flags it observed at its entry, and the
\* step that closes it sets the config's flags to exactly those, at every
\* depth and whether the bodies ended or raised.
C26_ScopesNest ==
    [][\A c \in Containers :
         LET open  == ScopesOver(rw_stack, c)
             open1 == ScopesOver(rw_stack', c)
         IN  /\ open1 # {} => rw_flags'[c] = Writable
             /\ (open = {} /\ open1 # {}) =>
                  SavedFlags(Outermost(rw_stack', c)) = rw_flags[c]
             /\ (open # {} /\ open1 # {}) =>
                  Outermost(rw_stack', c) = Outermost(rw_stack, c)
             /\ (open # {} /\ open1 = {}) =>
                  rw_flags'[c] = SavedFlags(Outermost(rw_stack, c))
             /\ (open = {} /\ open1 = {}) => rw_flags'[c] = rw_flags[c]
      ]_vars

\* MaxDepth scopes over the same readonly config are open, each inner one
\* having found the config writable, and the innermost body has added a key.
C26_Witness ==
    /\ Len(rw_stack) = MaxDepth
    /\ \A i \in 1..Len(rw_stack) : rw_stack[i].config = "config"
    /\ SavedFlags(rw_stack[1]) = [readonly |-> "True", struct |-> "None"]
    /\ \A i \in 2..Len(rw_stack) : SavedFlags(rw_stack[i]) = Writable
    /\ rw_data["config"].extra
    /\ rw_op = "add"
    /\ ~rw_pending


(***************************************************************************)
(* Claims about BaseTrainer._setup_eval_config.                            *)
(***************************************************************************)
Sets(opts, k) == \E i \in 1..Len(opts) : opts[i].key = k

\* The value the last pair for k in a list of options gives it.
OptionFor(opts, k) ==
    opts[CHOOSE i \in 1..Len(opts) :
           /\ opts[i].key = k
           /\ \A j \in 1..Len(opts) : opts[j].key = k => j <= i].value

\* The value of k in the source of highest priority that defines it: eval
\* options, checkpoint options, eval config, checkpoint config.
ByPriority(k) ==
    IF Sets(self_config.CMD_TRAILING_OPTS, k)
    THEN OptionFor(self_config.CMD_TRAILING_OPTS, k)
    ELSE IF Sets(checkpoint_config.CMD_TRAILING_OPTS, k)
    THEN OptionFor(checkpoint_config.CMD_TRAILING_OPTS, k)
    ELSE IF k \in DOMAIN self_config.values
    THEN self_config.values[k]
    ELSE checkpoint_config.values[k]

\* The value of k in the eval config with the eval options.
ByEvalAlone(k) ==
    IF Sets(self_config.CMD_TRAILING_OPTS, k)
    THEN OptionFor(self_config.CMD_TRAILING_OPTS, k)
    ELSE self_config.values[k]

ValAfterTrain(k, v) == IF k = "SPLIT" /\ v = "train" THEN "val" ELSE v

\* The saved config has a key the eval config lacks and may not add.
SavedIsOutdated ==
    /\ ~self_config.new_allowed
    /\ DOMAIN checkpoint_config.values \ DOMAIN self_config.values # {}

\* The config returned holds, for every key but those of the set given,
\* the value of the source of highest priority, or of the eval config and
\* its options alone when the saved config is outdated, with a split of
\* "train" replaced by "val"; and it is frozen.
ReturnedByPriority(except) ==
    /\ setup_pc = "outdated" <=> SavedIsOutdated
    /\ eval_config.frozen
    /\ IF setup_pc = "merged"
       THEN /\ DOMAIN eval_config.values =
                 DOMAIN self_config.values \cup DOMAIN checkpoint_config.values
            /\ \A k \in DOMAIN eval_config.values \ except :
                 eval_config.values[k] = ValAfterTrain(k, ByPriority(k))
       ELSE /\ DOMAIN eval_config.values = DOMAIN self_config.values
            /\ \A k \in DOMAIN eval_config.values \ except :
                 eval_config.values[k] = ValAfterTrain(k, ByEvalAlone(k))

\* C23 as claimed: every key of the config returned has the value of the
\* source of highest priority that defines it (the eval config and its
\* options alone for an outdated saved config), a split of "train" becomes
\* "val", the result is frozen, and the trainer's config is not modified.
C23_PriorityForEveryKey ==
    setup_pc \in {"merged", "outdated"} => ReturnedByPriority({})

\* C23: as claimed for every key but the agent's sensors, which the config
\* returned takes from the SENSORS of the trainer's config; the trainer's
\* config is not modified.
C23_EvalConfig ==
    /\ [](setup_pc \in {"merged", "outdated"} =>
            /\ ReturnedByPriority({"AGENT_SENSORS"})
            /\ eval_config.values["AGENT_SENSORS"] = self_config.values["SENSORS"])
    /\ [][self_config' = self_config /\ checkpoint_config' = checkpoint_config]_vars

\* A merged config: the eval option beat the checkpoint option for LR, the
\* saved split "train" lost to the eval config's "test", the key only the
\* saved config has was taken from it, and the agent's sensors are the
\* trainer's SENSORS and not the eval config's value for that key.
C23_Witness ==
    /\ setup_pc = "merged"
    /\ self_config.CMD_TRAILING_OPTS = <<[key |-> "LR", value |-> "high"]>>
    /\ checkpoint_config.CMD_TRAILING_OPTS = <<[key |-> "LR", value |-> "low"]>>
    /\ self_config.values["SPLIT"] = "test"
    /\ checkpoint_config.values["SPLIT"] = "train"
    /\ self_config.values["SENSORS"] = "depth"
    /\ self_config.values["AGENT_SENSORS"] = "rgb"
    /\ ~self_config.frozen
    /\ eval_config.frozen
    /\ eval_config.values =
         [k \in EvalKeys \cup {"OLD"} |->
            IF k = "LR" THEN "high"
            ELSE IF k = "SPLIT" THEN "test"
            ELSE IF k = "OLD" THEN "old"
            ELSE "depth"]

=============================================================================
